---- MODULE Spec2Model ----
(***************************************************************************)
(* Proxy fleet providers of adapters/provider/provider.go:                 *)
(* ProxySetProvider (fetch, parse, change detection, publish, periodic     *)
(* pull loop) and CompatibleProvider (static list).                        *)
(*                                                                         *)
(* A byte buffer is modelled by the YAML document it holds: whether it     *)
(* unmarshals, whether it has the `proxies` field, and the entries of the  *)
(* list.  A []C.Proxy slice is modelled by its header (backing array and   *)
(* length), because provider.go reads and writes pp.proxies without any    *)
(* synchronisation.  HealthCheck (healthcheck.go) and Vehicle are consumed *)
(* through their interface only.                                           *)
(***************************************************************************)
EXTENDS Integers, Sequences, FiniteSets, TLC

\* ------------------------------------------------------------------ bounds
\* Largest value of the wall clock (time.Now(), file modification times).
MaxClock == 1
\* Largest number of probe passes in flight at once.
MaxPasses == 1
\* Longest proxy list handed to NewCompatibleProvider.
MaxCpLen == 2
\* Longest `proxies` list of a document handed to parse alone.
MaxEntries == 4

\* A nil pointer (pp.updatedAt before any ingestion), a nil error index.
Nil == -1

\* ------------------------------------------------------------ documents
\* An entry of the `proxies` list, as handed to outbound.ParseProxy: "a" and
\* "b" are mappings ParseProxy accepts, "bad" is one it rejects.
GoodEntries == {"a", "b"}

Doc(y, f, es) == [yaml |-> y, field |-> f, entries |-> es]

\* Zero bytes (a nil []byte): unmarshals to a schema without the field.
NilBuf == Doc(TRUE, FALSE, <<>>)
DocEmptyList == Doc(TRUE, TRUE, <<>>)
DocBadSecond == Doc(TRUE, TRUE, <<"a", "bad">>)
DocA == Doc(TRUE, TRUE, <<"a">>)
DocAB == Doc(TRUE, TRUE, <<"a", "b">>)
DocNotYaml == Doc(FALSE, FALSE, <<>>)

\* The byte buffers a Vehicle or the cache file may hold in the provider's
\* runs (DocEmptyList and DocNotYaml exercise parse alone).
DocSeq == <<NilBuf, DocBadSecond, DocA, DocAB>>
Docs == {DocSeq[i] : i \in 1..Len(DocSeq)}

\* hash [16]byte: the zero value of the field, before any md5.Sum.
ZeroHash == 0

\* md5.Sum(buf): distinct buffers have distinct digests, none the zero value.
md5Sum(buf) == CHOOSE i \in 1..Len(DocSeq) : DocSeq[i] = buf

\* outbound.ParseProxy(mapping)
ParseProxy(mapping) ==
    IF mapping \in GoodEntries THEN [ok |-> TRUE, proxy |-> [name |-> mapping]]
    ELSE [ok |-> FALSE, proxy |-> [name |-> "?"]]

\* []C.Proxy: a slice header over a backing array.
Slice(arr) == [data |-> arr, len |-> Len(arr)]
NilSlice == Slice(<<>>)
\* What indexing an element beyond the backing array reads.
Garbage == [name |-> "?"]
\* The list a holder of slice header s iterates over.
View(s) == [i \in 1..s.len |-> IF i <= Len(s.data) THEN s.data[i] ELSE Garbage]

\* ProxySetProvider.parse(buf): ([]C.Proxy, error)
BadIdx(es) == {i \in 1..Len(es) : ~ParseProxy(es[i]).ok}
Min(S) == CHOOSE x \in S : \A y \in S : x <= y
parseErr(kind, idx) == [ok |-> FALSE, err |-> kind, idx |-> idx, proxies |-> NilSlice]
\* A parse that drops the entries ParseProxy rejects instead of failing.
parseShort(buf) ==
    IF ~buf.yaml THEN parseErr("yaml", Nil)
    ELSE IF ~buf.field THEN parseErr("nofield", Nil)
    ELSE LET good == SelectSeq(buf.entries, LAMBDA m : ParseProxy(m).ok)
         IN IF Len(good) = 0 THEN parseErr("empty", Nil)
            ELSE [ok |-> TRUE, err |-> "nil", idx |-> Nil,
                  proxies |-> Slice([i \in 1..Len(good) |-> ParseProxy(good[i]).proxy])]
parse(buf) ==
    IF ~buf.yaml THEN parseErr("yaml", Nil)
    ELSE IF ~buf.field THEN parseErr("nofield", Nil)
    ELSE IF BadIdx(buf.entries) # {} THEN parseErr("entry", Min(BadIdx(buf.entries)) - 1)
    ELSE IF Len(buf.entries) = 0 THEN parseErr("empty", Nil)
    ELSE [ok |-> TRUE, err |-> "nil", idx |-> Nil,
          proxies |-> Slice([i \in 1..Len(buf.entries) |-> ParseProxy(buf.entries[i]).proxy])]

\* No parse(buf) call has returned yet.
NotParsed == parseErr("none", Nil)

\* Vehicle.Read(): (bytes, error)
ReadOutcomes == {[ok |-> FALSE, buf |-> NilBuf]} \cup {[ok |-> TRUE, buf |-> d] : d \in Docs}

\* ------------------------------------------------------------------ state
Absent == [exists |-> FALSE, content |-> NilBuf, mtime |-> 0]
File(b, t) == [exists |-> TRUE, content |-> b, mtime |-> t]
Pullers == {"loop", "upd"}
Other(p) == IF p = "loop" THEN "upd" ELSE "loop"

VARIABLES
    hash,          \* pp.hash
    proxies,       \* pp.proxies (slice header)
    updatedAt,     \* pp.updatedAt (Nil or a time)
    cache,         \* the file at vehicle.Path()
    hasTicker,     \* pp.ticker != nil (interval != 0)
    tickerStopped, \* ticker.Stop() was called
    tickC,         \* number of ticks buffered in ticker.C (capacity 1)
    loopStarted,   \* go pp.pullLoop() has run
    initRet,       \* what the last Initial() returned: "none", "ok", "err"
    destroyed,     \* Destroy() has returned
    pc, buf, now, pprox, ret, old,   \* per running pull()
    hcProxies,     \* healthCheck's targets
    hcClosed,      \* healthCheck.close() has returned
    passes,        \* probe passes in flight
    clock,         \* wall clock
    lastRead,      \* what the last Proxies() call returned
    cpState, cpInput, cpProxies, cpRet, cpRead,  \* CompatibleProvider
    parseIn,       \* the buffer of the last parse(buf) call made on its own
    parseOut       \* what that call returned

pubVars == <<hash, proxies, updatedAt, cache, hcProxies>>
tickerVars == <<hasTicker, tickerStopped, tickC, loopStarted>>
pullVars == <<pc, buf, now, pprox, ret, old>>
hcVars == <<hcClosed, passes>>
cpVars == <<cpState, cpInput, cpProxies, cpRet, cpRead>>
parseVars == <<parseIn, parseOut>>
vars == <<hash, proxies, updatedAt, cache, hasTicker, tickerStopped, tickC,
          loopStarted, initRet, destroyed, pc, buf, now, pprox, ret, old,
          hcProxies, hcClosed, passes, clock, lastRead,
          cpState, cpInput, cpProxies, cpRet, cpRead, parseIn, parseOut>>

\* NewProxySetProvider(name, interval, vehicle, hc): the cache file is whatever
\* an earlier run left at vehicle.Path().
Init ==
    /\ hash = ZeroHash
    /\ proxies = NilSlice
    /\ updatedAt = Nil
    /\ cache \in {Absent} \cup {File(d, 0) : d \in Docs}
    /\ hasTicker \in BOOLEAN
    /\ tickerStopped = FALSE
    /\ tickC = 0
    /\ loopStarted = FALSE
    /\ initRet = "none"
    /\ destroyed = FALSE
    /\ pc = [p \in Pullers |-> "idle"]
    /\ buf = [p \in Pullers |-> NilBuf]
    /\ now = [p \in Pullers |-> 0]
    /\ pprox = [p \in Pullers |-> NilSlice]
    /\ ret = [p \in Pullers |-> "none"]
    /\ old = [p \in Pullers |-> NilSlice]
    /\ hcProxies = NilSlice
    /\ hcClosed = FALSE
    /\ passes = 0
    /\ clock = 0
    /\ lastRead = <<>>
    /\ cpState = "none"
    /\ cpInput = <<>>
    /\ cpProxies = NilSlice
    /\ cpRet = [op |-> "none", err |-> "nil"]
    /\ cpRead = <<>>
    /\ parseIn = NilBuf
    /\ parseOut = NotParsed

\* ------------------------------------------------------- ProxySetProvider
\* ProxySetProvider.setProxies(proxies), run without interleaving (as Initial
\* runs it): store the slice, hand it to the HealthCheck, go healthCheck.check().
setProxies(s) ==
    /\ proxies' = s
    /\ hcProxies' = s
    /\ passes' = passes + 1

\* An Initial() that starts the refresh loop without looking at the ticker.
InitialWithLoopAlways(r1, r2, w) ==
    /\ initRet # "ok"
    /\ ~destroyed
    /\ LET buf1 == IF cache.exists THEN cache.content ELSE r1.buf
           at1 == IF cache.exists THEN cache.mtime ELSE updatedAt
           p1 == parse(buf1)
           buf2 == IF p1.ok THEN buf1 ELSE r2.buf
       IN /\ updatedAt' = at1
          /\ IF (~p1.ok /\ ~r2.ok) \/ ~w
             THEN /\ initRet' = "err"
                  /\ UNCHANGED <<hash, proxies, cache, hcProxies, passes, loopStarted>>
             ELSE /\ passes < MaxPasses
                  /\ cache' = File(buf2, clock)
                  /\ hash' = md5Sum(buf2)
                  /\ setProxies(p1.proxies)
                  /\ loopStarted' = TRUE
                  /\ initRet' = "ok"
    /\ UNCHANGED <<hasTicker, tickerStopped, tickC, destroyed, pullVars,
                   hcClosed, clock, lastRead, cpVars, parseVars>>

\* An Initial() that fetches from the Vehicle even when the cache file exists.
InitialWithRemoteFirst(r1, r2, w) ==
    /\ initRet # "ok"
    /\ ~destroyed
    /\ LET buf1 == r1.buf
           at1 == IF cache.exists THEN cache.mtime ELSE updatedAt
           p1 == parse(buf1)
           buf2 == IF p1.ok THEN buf1 ELSE r2.buf
       IN /\ updatedAt' = at1
          /\ IF (~p1.ok /\ ~r2.ok) \/ ~w
             THEN /\ initRet' = "err"
                  /\ UNCHANGED <<hash, proxies, cache, hcProxies, passes, loopStarted>>
             ELSE /\ passes < MaxPasses
                  /\ cache' = File(buf2, clock)
                  /\ hash' = md5Sum(buf2)
                  /\ setProxies(p1.proxies)
                  /\ loopStarted' = hasTicker
                  /\ initRet' = "ok"
    /\ UNCHANGED <<hasTicker, tickerStopped, tickC, destroyed, pullVars,
                   hcClosed, clock, lastRead, cpVars, parseVars>>

\* ProxySetProvider.Initial(). r1 is what vehicle.Read() returns at line 122,
\* r2 what it returns at line 132, w whether ioutil.WriteFile succeeds.
\* The err assigned at lines 118 and 122 is the one declared by the if
\* statement at line 117, so the check at line 125 never fires; a cache file
\* that exists is taken to be readable. The registry calls Initial() at
\* startup, again only after a failure, and not on a destroyed provider.
InitialWith(r1, r2, w) ==
    /\ initRet # "ok"
    /\ ~destroyed
    /\ LET buf1 == IF cache.exists THEN cache.content ELSE r1.buf
           at1 == IF cache.exists THEN cache.mtime ELSE updatedAt
           p1 == parse(buf1)
           buf2 == IF p1.ok THEN buf1 ELSE r2.buf
       IN /\ updatedAt' = at1
          /\ IF (~p1.ok /\ ~r2.ok) \/ ~w
             THEN /\ initRet' = "err"
                  /\ UNCHANGED <<hash, proxies, cache, hcProxies, passes, loopStarted>>
             ELSE /\ passes < MaxPasses
                  /\ cache' = File(buf2, clock)
                  /\ hash' = md5Sum(buf2)
                  /\ setProxies(p1.proxies)
                  /\ loopStarted' = hasTicker
                  /\ initRet' = "ok"
    /\ UNCHANGED <<hasTicker, tickerStopped, tickC, destroyed, pullVars,
                   hcClosed, clock, lastRead, cpVars, parseVars>>

Initial == \E r1 \in ReadOutcomes, r2 \in ReadOutcomes, w \in BOOLEAN : InitialWith(r1, r2, w)

\* What returning from a pull() leaves of its locals.
Return(p, r) ==
    /\ pc' = [pc EXCEPT ![p] = "idle"]
    /\ ret' = [ret EXCEPT ![p] = r]
    /\ now' = [now EXCEPT ![p] = 0]
    /\ pprox' = [pprox EXCEPT ![p] = NilSlice]
    /\ old' = [old EXCEPT ![p] = NilSlice]
    /\ buf' = [buf EXCEPT ![p] = NilBuf]

\* pull(), line 174: buf, err := pp.vehicle.Read(). The pull loop runs it for a
\* tick received from ticker.C (line 166), Update() on the caller's demand,
\* between a successful Initial() and Destroy().
PullFetch(p, r) ==
    /\ pc[p] = "idle"
    /\ IF p = "loop"
       THEN loopStarted /\ tickC = 1 /\ tickC' = 0
       ELSE initRet = "ok" /\ ~destroyed /\ tickC' = tickC
    /\ IF r.ok
       THEN /\ pc' = [pc EXCEPT ![p] = "fetched"]
            /\ buf' = [buf EXCEPT ![p] = r.buf]
            /\ ret' = [ret EXCEPT ![p] = "none"]
            /\ UNCHANGED <<now, pprox, old>>
       ELSE Return(p, "fetchErr")
    /\ UNCHANGED <<pubVars, hasTicker, tickerStopped, loopStarted, initRet,
                   destroyed, hcVars, clock, lastRead, cpVars, parseVars>>

\* A pull that skips the comparison with pp.hash and always goes on to parse.
PullCompareAlways(p) ==
    /\ pc[p] = "fetched"
    /\ updatedAt' = updatedAt
    /\ IF parse(buf[p]).ok
       THEN /\ pc' = [pc EXCEPT ![p] = "write"]
            /\ now' = [now EXCEPT ![p] = clock]
            /\ pprox' = [pprox EXCEPT ![p] = parse(buf[p]).proxies]
            /\ UNCHANGED <<ret, old, buf>>
       ELSE Return(p, "parseErr")
    /\ UNCHANGED <<hash, proxies, cache, hcProxies, tickerVars, initRet, destroyed,
                   hcVars, clock, lastRead, cpVars, parseVars>>

\* pull(), lines 179-190: time.Now(), md5.Sum, the comparison with pp.hash and
\* the parse.
PullCompare(p) ==
    /\ pc[p] = "fetched"
    /\ IF md5Sum(buf[p]) = hash
       THEN /\ updatedAt' = clock
            /\ Return(p, "same")
       ELSE /\ updatedAt' = updatedAt
            /\ IF parse(buf[p]).ok
               THEN /\ pc' = [pc EXCEPT ![p] = "write"]
                    /\ now' = [now EXCEPT ![p] = clock]
                    /\ pprox' = [pprox EXCEPT ![p] = parse(buf[p]).proxies]
                    /\ UNCHANGED <<ret, old, buf>>
               ELSE Return(p, "parseErr")
    /\ UNCHANGED <<hash, proxies, cache, hcProxies, tickerVars, initRet, destroyed,
                   hcVars, clock, lastRead, cpVars, parseVars>>

\* A pull() that assigns the hash before it writes the cache file.
PullWriteHashFirst(p, w) ==
    /\ pc[p] = "write"
    /\ hash' = md5Sum(buf[p])
    /\ IF w
       THEN /\ cache' = File(buf[p], clock)
            /\ pc' = [pc EXCEPT ![p] = "setAt"]
            /\ UNCHANGED <<ret, now, pprox, old, buf>>
       ELSE /\ cache' = cache
            /\ Return(p, "writeErr")
    /\ UNCHANGED <<proxies, updatedAt, hcProxies, tickerVars, initRet,
                   destroyed, hcVars, clock, lastRead, cpVars, parseVars>>

\* pull(), lines 193-195: ioutil.WriteFile(pp.vehicle.Path(), buf, fileMode)
PullWrite(p, w) ==
    /\ pc[p] = "write"
    /\ IF w
       THEN /\ cache' = File(buf[p], clock)
            /\ pc' = [pc EXCEPT ![p] = "setAt"]
            /\ UNCHANGED <<ret, now, pprox, old, buf>>
       ELSE /\ cache' = cache
            /\ Return(p, "writeErr")
    /\ UNCHANGED <<hash, proxies, updatedAt, hcProxies, tickerVars, initRet,
                   destroyed, hcVars, clock, lastRead, cpVars, parseVars>>

\* pull(), line 197: pp.updatedAt = &now
PullSetUpdatedAt(p) ==
    /\ pc[p] = "setAt"
    /\ updatedAt' = now[p]
    /\ pc' = [pc EXCEPT ![p] = "setHash"]
    /\ UNCHANGED <<hash, proxies, cache, hcProxies, tickerVars, initRet, destroyed,
                   buf, now, pprox, ret, old, hcVars, clock, lastRead, cpVars, parseVars>>

\* pull(), line 198: pp.hash = hash
PullSetHash(p) ==
    /\ pc[p] = "setHash"
    /\ hash' = md5Sum(buf[p])
    /\ pc' = [pc EXCEPT ![p] = "setProxies"]
    /\ UNCHANGED <<proxies, updatedAt, cache, hcProxies, tickerVars, initRet, destroyed,
                   buf, now, pprox, ret, old, hcVars, clock, lastRead, cpVars, parseVars>>

\* setProxies, line 232: pp.proxies = proxies. The store of a slice header is
\* not atomic and nothing orders it with the load in Proxies(): the data word
\* and the length word are stored one after the other, in either order.
PullStoreFirst(p) ==
    /\ pc[p] = "setProxies"
    /\ old' = [old EXCEPT ![p] = proxies]
    /\ \/ /\ proxies' = [proxies EXCEPT !.data = pprox[p].data]
          /\ pc' = [pc EXCEPT ![p] = "storeLen"]
       \/ /\ proxies' = [proxies EXCEPT !.len = pprox[p].len]
          /\ pc' = [pc EXCEPT ![p] = "storeData"]
    /\ UNCHANGED <<hash, updatedAt, cache, hcProxies, tickerVars, initRet, destroyed,
                   buf, now, pprox, ret, hcVars, clock, lastRead, cpVars, parseVars>>

PullStoreSecond(p) ==
    /\ pc[p] \in {"storeLen", "storeData"}
    /\ proxies' = IF pc[p] = "storeLen"
                  THEN [proxies EXCEPT !.len = pprox[p].len]
                  ELSE [proxies EXCEPT !.data = pprox[p].data]
    /\ pc' = [pc EXCEPT ![p] = "setProxy"]
    /\ old' = [old EXCEPT ![p] = NilSlice]
    /\ UNCHANGED <<hash, updatedAt, cache, hcProxies, tickerVars, initRet, destroyed,
                   buf, now, pprox, ret, hcVars, clock, lastRead, cpVars, parseVars>>

\* setProxies, line 233: pp.healthCheck.setProxy(proxies)
PullSetProxy(p) ==
    /\ pc[p] = "setProxy"
    /\ hcProxies' = pprox[p]
    /\ pc' = [pc EXCEPT ![p] = "goCheck"]
    /\ UNCHANGED <<hash, proxies, updatedAt, cache, tickerVars, initRet, destroyed,
                   buf, now, pprox, ret, old, hcVars, clock, lastRead, cpVars, parseVars>>

\* setProxies, line 234: go pp.healthCheck.check(); pull returns nil.
PullGoCheck(p) ==
    /\ pc[p] = "goCheck"
    /\ passes < MaxPasses
    /\ passes' = passes + 1
    /\ Return(p, "ok")
    /\ UNCHANGED <<pubVars, tickerVars, initRet, destroyed,
                   hcClosed, clock, lastRead, cpVars, parseVars>>

\* The runtime sends a tick on ticker.C (a channel of capacity 1) unless the
\* ticker was stopped; a tick that finds the channel full is dropped.
TimerFire ==
    /\ hasTicker
    /\ ~tickerStopped
    /\ tickC = 0
    /\ tickC' = 1
    /\ UNCHANGED <<pubVars, hasTicker, tickerStopped, loopStarted, initRet, destroyed,
                   pullVars, hcVars, clock, lastRead, cpVars, parseVars>>

\* ProxySetProvider.Destroy(): healthCheck.close(), then ticker.Stop() when
\* there is a ticker. Stop does not drain or close ticker.C.
Destroy ==
    /\ ~destroyed
    /\ hcClosed' = TRUE
    /\ tickerStopped' = hasTicker
    /\ destroyed' = TRUE
    /\ UNCHANGED <<pubVars, hasTicker, tickC, loopStarted, initRet, pullVars,
                   passes, clock, lastRead, cpVars, parseVars>>

\* ProxySetProvider.Proxies(): return pp.proxies
Proxies ==
    /\ lastRead' = View(proxies)
    /\ UNCHANGED <<pubVars, tickerVars, initRet, destroyed, pullVars, hcVars,
                   clock, cpVars, parseVars>>

\* ------------------------------------------------------------ HealthCheck
\* HealthCheck.check(), called by ProxySetProvider.HealthCheck() or by the
\* periodic loop of process() until close(): one more probe pass over the
\* targets.
HealthCheckCall ==
    /\ passes < MaxPasses
    /\ ~hcClosed
    /\ passes' = passes + 1
    /\ UNCHANGED <<pubVars, tickerVars, initRet, destroyed, pullVars,
                   hcClosed, clock, lastRead, cpVars, parseVars>>

\* A probe pass completes (every probe answered or timed out).
PassDone ==
    /\ passes > 0
    /\ passes' = passes - 1
    /\ UNCHANGED <<pubVars, tickerVars, initRet, destroyed, pullVars,
                   hcClosed, clock, lastRead, cpVars, parseVars>>

\* Time passes.
Tick ==
    /\ clock < MaxClock
    /\ clock' = clock + 1
    /\ UNCHANGED <<pubVars, tickerVars, initRet, destroyed, pullVars, hcVars,
                   lastRead, cpVars, parseVars>>

pull(p) ==
    \/ \E r \in ReadOutcomes : PullFetch(p, r)
    \/ PullCompare(p)
    \/ \E w \in BOOLEAN : PullWrite(p, w)
    \/ PullSetUpdatedAt(p)
    \/ PullSetHash(p)
    \/ PullStoreFirst(p)
    \/ PullStoreSecond(p)
    \/ PullSetProxy(p)
    \/ PullGoCheck(p)

\* for range pp.ticker.C { pp.pull() }
pullLoop == pull("loop")

\* ProxySetProvider.Update(): return pp.pull()
Update == pull("upd")

\* ----------------------------------------------------- CompatibleProvider
\* The lists of already constructed proxies a caller may supply.
CpLists == UNION {[1..n -> {[name |-> e] : e \in GoodEntries}] : n \in 0..MaxCpLen}

psVars == <<pubVars, tickerVars, initRet, destroyed, pullVars, clock, lastRead>>

\* A constructor that accepts any list.
NewCompatibleProviderUnchecked(l) ==
    /\ cpState = "none"
    /\ cpInput' = l
    /\ cpState' = "built"
    /\ cpProxies' = Slice(l)
    /\ cpRet' = [op |-> "New", err |-> "nil"]
    /\ UNCHANGED <<psVars, parseVars, hcVars, cpRead>>

\* NewCompatibleProvider(name, proxies, hc)
NewCompatibleProvider(l) ==
    /\ cpState = "none"
    /\ cpInput' = l
    /\ IF Len(l) = 0
       THEN /\ cpState' = "failed"
            /\ cpRet' = [op |-> "New", err |-> "Provider need one proxy at least"]
            /\ cpProxies' = cpProxies
       ELSE /\ cpState' = "built"
            /\ cpProxies' = Slice(l)
            /\ cpRet' = [op |-> "New", err |-> "nil"]
    /\ UNCHANGED <<psVars, parseVars, hcVars, cpRead>>

\* CompatibleProvider.Initial(), Reload(), Update(): return nil
CpNoop(op) ==
    /\ cpState = "built"
    /\ cpRet' = [op |-> op, err |-> "nil"]
    /\ UNCHANGED <<psVars, parseVars, hcVars, cpState, cpInput, cpProxies, cpRead>>

CpInitial == CpNoop("Initial")
CpReload == CpNoop("Reload")
CpUpdate == CpNoop("Update")

\* CompatibleProvider.Destroy(): cp.healthCheck.close(); return nil
CpDestroy ==
    /\ cpState = "built"
    /\ hcClosed' = TRUE
    /\ cpRet' = [op |-> "Destroy", err |-> "nil"]
    /\ UNCHANGED <<psVars, parseVars, passes, cpState, cpInput, cpProxies, cpRead>>

\* CompatibleProvider.Proxies(): return cp.proxies
CpProxies ==
    /\ cpState = "built"
    /\ cpRead' = View(cpProxies)
    /\ cpRet' = [op |-> "Proxies", err |-> "nil"]
    /\ UNCHANGED <<psVars, parseVars, hcVars, cpState, cpInput, cpProxies>>

\* CompatibleProvider.HealthCheck(): cp.healthCheck.check()
CpHealthCheck ==
    /\ cpState = "built"
    /\ passes < MaxPasses
    /\ passes' = passes + 1
    /\ cpRet' = [op |-> "HealthCheck", err |-> "nil"]
    /\ UNCHANGED <<psVars, parseVars, hcClosed, cpState, cpInput, cpProxies, cpRead>>

InitCP == Init /\ ~cache.exists /\ ~hasTicker

NextCP ==
    \/ \E l \in CpLists : NewCompatibleProvider(l)
    \/ CpInitial
    \/ CpReload
    \/ CpUpdate
    \/ CpDestroy
    \/ CpProxies
    \/ CpHealthCheck
    \/ PassDone

SpecCP == InitCP /\ [][NextCP]_vars

\* C10: NewCompatibleProvider fails, yielding no provider, exactly when the
\* supplied list is empty; a provider that was built returns nil from every
\* Initial(), Reload(), Update() and Destroy(), and its Proxies() returns the
\* list supplied at construction, non-empty and in the same order.
C10_CompatibleProvider ==
    /\ cpState = "failed" =>
          (cpInput = <<>> /\ cpRet.op = "New" /\ cpRet.err # "nil" /\ cpProxies = NilSlice)
    /\ cpState = "built" =>
          (/\ cpInput # <<>>
           /\ cpRet.err = "nil"
           /\ View(cpProxies) = cpInput
           /\ cpRet.op = "Proxies" => cpRead = cpInput)

\* C10 witness: a provider built from two different proxies was destroyed,
\* and a later Proxies() returned both.
C10_Witness ==
    /\ cpState = "built"
    /\ hcClosed
    /\ cpRet.op = "Proxies"
    /\ Len(cpRead) = 2 /\ cpRead[1] # cpRead[2]

\* The provider with its refresh loop, its callers of Initial, Update,
\* HealthCheck and Destroy, the ticker and the clock.
Next ==
    \/ Initial
    \/ pullLoop
    \/ Update
    \/ TimerFire
    \/ Destroy
    \/ HealthCheckCall
    \/ PassDone
    \/ Tick

Spec == Init /\ [][Next]_vars

\* ----------------------------------------------------------------- claims
\* The documents with the `proxies` field, at least one entry and only
\* entries ParseProxy accepts.
ValidDocs == {d \in Docs : d.yaml /\ d.field /\ Len(d.entries) > 0
                           /\ \A i \in 1..Len(d.entries) : d.entries[i] \in GoodEntries}
\* The proxies a document lists, one per entry, in document order.
Entries(d) == [i \in 1..Len(d.entries) |-> [name |-> d.entries[i]]]
\* pull() or Initial() returned nil.
Succeeded(r) == r \in {"ok", "same"}
\* hash is the digest of bytes whose parse is the published list.
PairOK == \E d \in ValidDocs : hash = md5Sum(d) /\ View(proxies) = Entries(d)

\* C1: every Initial() that returns nil leaves a non-empty published list and
\* a hash that is the digest of the bytes parsed into that list.
C1_InitialPublishes ==
    [][\A r1 \in ReadOutcomes, r2 \in ReadOutcomes, w \in BOOLEAN :
         (InitialWith(r1, r2, w) /\ initRet' = "ok") =>
            (View(proxies') # <<>> /\ PairOK')]_vars

\* C2: with a cache file that does not parse and a Vehicle.Read() that
\* returns bytes that parse, Initial() succeeds, publishes exactly the
\* entries of the remote bytes and rewrites the cache with them.
C2_FallbackToRemote ==
    [][\A r1 \in ReadOutcomes, r2 \in ReadOutcomes :
         (/\ InitialWith(r1, r2, TRUE)
          /\ cache.exists /\ cache.content \notin ValidDocs
          /\ r2.ok /\ r2.buf \in ValidDocs) =>
            (/\ initRet' = "ok"
             /\ View(proxies') = Entries(r2.buf)
             /\ cache'.exists /\ cache'.content = r2.buf)]_vars

\* C3: a pull() whose Vehicle.Read() fails, or whose fetched bytes differ
\* from the current hash and do not parse, returns an error, and none of its
\* steps changes proxies, hash, updatedAt, the HealthCheck targets, the cache
\* file or the probe passes.
C3_FailedPullKeepsState ==
    [][\A p \in Pullers :
         /\ \A r \in ReadOutcomes : PullFetch(p, r) =>
               (/\ UNCHANGED <<pubVars, passes>>
                /\ ~r.ok => (pc'[p] = "idle" /\ ret'[p] = "fetchErr"))
         /\ (PullCompare(p) /\ md5Sum(buf[p]) # hash /\ buf[p] \notin ValidDocs) =>
               (/\ UNCHANGED <<pubVars, passes>>
                /\ pc'[p] = "idle" /\ ret'[p] = "parseErr")]_vars

\* C3 witness: a pull failed on unparseable bytes while a list was published,
\* and that list is still the published one.
C3_Witness ==
    /\ ret["upd"] = "parseErr"
    /\ pc["loop"] = "idle"
    /\ PairOK
    /\ hcProxies = proxies
    /\ cache.exists /\ md5Sum(cache.content) = hash

\* C4: when neither the cache nor any Vehicle.Read() yields bytes that parse,
\* Initial() returns an error, publishes nothing, leaves hash and the cache
\* file as they were and starts no refresh loop.
C4_InitialFailsWithoutBytes ==
    [][\A r1 \in ReadOutcomes, r2 \in ReadOutcomes, w \in BOOLEAN :
         (/\ InitialWith(r1, r2, w)
          /\ ~cache.exists \/ cache.content \notin ValidDocs
          /\ ~r1.ok \/ r1.buf \notin ValidDocs
          /\ ~r2.ok \/ r2.buf \notin ValidDocs) =>
            (/\ initRet' = "err"
             /\ UNCHANGED <<proxies, hash, cache, hcProxies, loopStarted>>)]_vars

\* C5: a pull() whose fetched bytes have the digest stored in hash returns
\* nil, sets updatedAt to the current time and leaves proxies, hash, the
\* HealthCheck targets and the cache file unchanged, without a parse, a
\* cache write, a publish or a probe pass.
C5_SameContentNoop ==
    [][\A p \in Pullers :
         (PullCompare(p) /\ md5Sum(buf[p]) = hash) =>
            (/\ pc'[p] = "idle" /\ ret'[p] = "same"
             /\ updatedAt' = clock
             /\ UNCHANGED <<hash, proxies, cache, hcProxies, passes>>)]_vars

\* C5 witness: an unchanged-content pull has returned and moved updatedAt
\* past the time of the ingestion that wrote the cache.
C5_Witness ==
    /\ ret["upd"] = "same"
    /\ pc["loop"] = "idle"
    /\ PairOK
    /\ cache.exists /\ cache.mtime < updatedAt /\ updatedAt = clock

\* C6: without a refresh loop (so without concurrent pulls), a pull() that
\* fetched valid bytes B and returns nil leaves proxies equal to the entries
\* of B, in order, and hash equal to the digest of B.
C6_ChangeDetection ==
    [][\A p \in Pullers :
         (/\ ~hasTicker
          /\ PullCompare(p) \/ PullGoCheck(p)
          /\ pc'[p] = "idle" /\ Succeeded(ret'[p])
          /\ buf[p] \in ValidDocs) =>
            (View(proxies') = Entries(buf[p]) /\ hash' = md5Sum(buf[p]))]_vars

\* C7: once a publishing pull() has returned and no other pull is running,
\* hash is the digest of the bytes whose parse is the published list, for
\* every interleaving of the refresh loop's pull with Update().
C7_SerializedPulls ==
    [][\A p \in Pullers :
         (PullGoCheck(p) /\ pc[Other(p)] = "idle") => PairOK']_vars

\* C9: once Destroy() has returned, the refresh loop begins no pull() and no
\* probe pass is spawned.
C9_QuietAfterDestroy ==
    [][destroyed =>
         (/\ \A r \in ReadOutcomes : ~PullFetch("loop", r)
          /\ passes' <= passes)]_vars

\* The provider under manual refresh, with concurrent readers of Proxies().
NextReaders ==
    \/ Initial
    \/ Update
    \/ Proxies
    \/ Destroy
    \/ PassDone
    \/ Tick

SpecReaders == Init /\ [][NextReaders]_vars

\* C8: a Proxies() call made while a pull() is publishing returns either the
\* list published before or the list being published, never anything else.
C8_AtomicPublish ==
    [][Proxies =>
         \A p \in Pullers :
            pc[p] \in {"storeLen", "storeData"} =>
               lastRead' \in {View(old[p]), View(pprox[p])}]_vars

Quiescent == \A p \in Pullers : pc[p] = "idle"

\* C12: whenever no Initial() or pull() is in progress and a publish has
\* happened, the cache file holds exactly the bytes whose parse is the
\* published list, and those bytes parse.
C12_CacheMatchesPublished ==
    (Quiescent /\ initRet = "ok") =>
        (/\ cache.exists
         /\ cache.content \in ValidDocs
         /\ View(proxies) = Entries(cache.content))

\* C13: contentHash changes if and only if proxies is replaced by a newly
\* parsed non-empty list: an Initial() that assigns the hash or replaces the
\* list leaves the hash as the digest of the bytes the published non-empty
\* list was parsed from, and a pull() assigns the hash only to the digest of
\* bytes it has parsed into the non-empty list it then publishes.
C13_HashIffPublish ==
    [][/\ (Initial /\ (hash' # hash \/ proxies' # proxies)) => PairOK'
       /\ \A p \in Pullers :
             PullSetHash(p) =>
                (/\ buf[p] \in ValidDocs
                 /\ View(pprox[p]) = Entries(buf[p])
                 /\ hash' = md5Sum(buf[p])
                 /\ pc'[p] = "setProxies")
       /\ \A p \in Pullers :
             PullStoreFirst(p) => View(pprox[p]) = Entries(buf[p])]_vars

\* C14: each publish replaces proxies, then hands the same list to
\* HealthCheck.setProxy, then starts one probe pass; so whenever no publish is
\* in progress, also after interleaved pulls, the HealthCheck targets equal
\* the published proxies.
C14_TargetsEqualPublished ==
    Quiescent => hcProxies = proxies

\* C15: the refresh loop runs if and only if refreshInterval > 0 (a ticker
\* exists) and Initial() has succeeded; the loop's pull() has neither started
\* nor returned anything unless both hold, so without a ticker every pull()
\* comes from Update().
C15_LoopIffTickerAndInitial ==
    /\ loopStarted <=> (hasTicker /\ initRet = "ok")
    /\ (pc["loop"] # "idle" \/ ret["loop"] # "none") => (hasTicker /\ initRet = "ok")
    /\ tickC = 1 => hasTicker

\* The ticker's pull() has run to a publish, after a successful Initial().
C15_Witness ==
    /\ hasTicker
    /\ loopStarted
    /\ initRet = "ok"
    /\ pc["loop"] = "idle"
    /\ ret["loop"] = "ok"

\* ------------------------------------------------------------ parse alone
\* The mappings a `proxies` list may hold, and the lists of at most n of them.
EntryKinds == GoodEntries \cup {"bad"}
SeqsUpTo(S, n) == UNION {[1..k -> S] : k \in 0..n}
\* The buffers parse is called on: bytes that do not unmarshal, zero bytes,
\* and every document with a `proxies` list of at most MaxEntries entries.
ParseInputs ==
    {DocNotYaml, NilBuf} \cup {Doc(TRUE, TRUE, es) : es \in SeqsUpTo(EntryKinds, MaxEntries)}

\* pp.parse(d), on a provider nothing else is running on.
ParseCall(d) ==
    /\ parseIn' = d
    /\ parseOut' = parse(d)
    /\ UNCHANGED <<psVars, hcVars, cpVars>>

InitParse == Init /\ ~cache.exists /\ ~hasTicker
NextParse == \E d \in ParseInputs : ParseCall(d)
SpecParse == InitParse /\ [][NextParse]_vars

\* C16: parse is all-or-nothing. It returns a list exactly when the document
\* has the `proxies` field, at least one entry, and ParseProxy accepts every
\* entry; the list then has one proxy per entry in document order. Without the
\* field it fails with the missing-field error, with an empty list with the
\* no-valid-proxy error, and with a rejected entry with the error carrying the
\* (0-based) index of the first rejected entry; a failure returns no list.
C16_ParseAllOrNothing ==
    parseOut # NotParsed =>
        LET es == parseIn.entries
            allGood == \A i \in 1..Len(es) : es[i] \in GoodEntries
        IN /\ parseOut.ok <=> (parseIn.yaml /\ parseIn.field /\ Len(es) > 0 /\ allGood)
           /\ parseOut.ok =>
                 /\ parseOut.err = "nil"
                 /\ parseOut.proxies.len = Len(es)
                 /\ View(parseOut.proxies) = [i \in 1..Len(es) |-> [name |-> es[i]]]
           /\ ~parseOut.ok => parseOut.proxies = NilSlice
           /\ ~parseIn.yaml => parseOut.err = "yaml"
           /\ (parseIn.yaml /\ ~parseIn.field) => parseOut.err = "nofield"
           /\ (parseIn.yaml /\ parseIn.field /\ Len(es) = 0) => parseOut.err = "empty"
           /\ (parseIn.yaml /\ parseIn.field /\ ~allGood) =>
                 /\ parseOut.err = "entry"
                 /\ \E n \in 1..Len(es) :
                       /\ es[n] \notin GoodEntries
                       /\ \A j \in 1..(n - 1) : es[j] \in GoodEntries
                       /\ parseOut.idx = n - 1

\* parse has rejected a document whose second entry is the first invalid one,
\* after a valid first entry.
C16_Witness ==
    /\ parseIn = Doc(TRUE, TRUE, <<"a", "bad", "b">>)
    /\ parseOut = parseErr("entry", 1)

\* C17: updatedAt is set by every successful ingestion: a successful
\* Initial() leaves it non-null, the cache file's modification time when the
\* cache's bytes were ingested and the current time otherwise; a successful
\* pull() sets it to the time of that pull, for changed and unchanged content.
C17_UpdatedAtSet ==
    [][/\ (Initial /\ initRet' = "ok") =>
             /\ updatedAt' # Nil
             /\ updatedAt' = IF cache.exists /\ parse(cache.content).ok
                             THEN cache.mtime ELSE clock
       /\ \A p \in Pullers :
             (PullCompare(p) /\ ret'[p] = "same") => updatedAt' = clock
       /\ \A p \in Pullers :
             PullSetUpdatedAt(p) => updatedAt' = now[p]]_vars

\* C18: a failed write of the cache file publishes nothing: the pull() or
\* Initial() returns the error, and proxies, contentHash, updatedAt (for
\* pull) and the HealthCheck targets keep their values and no probe pass is
\* started.
C18_PersistFailureKeepsState ==
    [][/\ \A p \in Pullers :
             PullWrite(p, FALSE) =>
                /\ pc'[p] = "idle"
                /\ ret'[p] = "writeErr"
                /\ UNCHANGED <<hash, proxies, updatedAt, hcProxies, passes>>
       /\ \A r1 \in ReadOutcomes, r2 \in ReadOutcomes :
             InitialWith(r1, r2, FALSE) =>
                /\ initRet' = "err"
                /\ UNCHANGED <<hash, proxies, hcProxies, passes, loopStarted>>]_vars

\* An Update() of changed, valid bytes has returned the write error, and the
\* provider still shows what Initial() published.
C18_Witness ==
    /\ initRet = "ok"
    /\ ret["upd"] = "writeErr"
    /\ pc["upd"] = "idle"
    /\ ret["loop"] = "none"
    /\ PairOK
    /\ hcProxies = proxies
    /\ cache.exists
    /\ md5Sum(cache.content) = hash

\* ------------------------------------------------------- the refresh loop
\* A provider with refreshInterval > 0 that is never destroyed and whose
\* Vehicle, once Initial() is over, answers every Read() of the refresh loop
\* with the same valid bytes; every write of the cache file by the loop
\* succeeds.
LiveDoc == DocAB
LiveRead == [ok |-> TRUE, buf |-> LiveDoc]

\* One step of the pull() the refresh loop runs (lines 173-202).
LoopStep ==
    \/ PullFetch("loop", LiveRead)
    \/ PullCompare("loop")
    \/ PullWrite("loop", TRUE)
    \/ PullSetUpdatedAt("loop")
    \/ PullSetHash("loop")
    \/ PullStoreFirst("loop")
    \/ PullStoreSecond("loop")
    \/ PullSetProxy("loop")
    \/ PullGoCheck("loop")

InitLive == Init /\ hasTicker
NextLive ==
    \/ Initial
    \/ TimerFire
    \/ LoopStep
    \/ PassDone
    \/ Tick
\* The ticker keeps firing, the loop's goroutine keeps running, and probe
\* passes end.
SpecLive ==
    /\ InitLive
    /\ [][NextLive]_vars
    /\ WF_vars(TimerFire)
    /\ WF_vars(LoopStep)
    /\ WF_vars(PassDone)

\* C19: with refreshInterval > 0, once Initial() has succeeded and while the
\* Vehicle keeps returning the same valid bytes B to a refresh loop that keeps
\* running, Proxies() eventually equals the entries of B and contentHash the
\* digest of B, and both stay so.
C19_LoopConverges ==
    (initRet = "ok") ~> [](View(proxies) = Entries(LiveDoc) /\ hash = md5Sum(LiveDoc))

====
